---- MODULE Spec2Model ----
(***************************************************************************)
(* Rule evaluation and transformation engine of the compliance demo:       *)
(* the rule loop of V1_compliance_demo_app.py (lines 99-141), together     *)
(* with the rule loading (lines 14-15) and the hand-off of the outputs     *)
(* (lines 143-159).                                                        *)
(*                                                                         *)
(* A pass is modelled once per run identifier, so that two passes over     *)
(* independent copies of the same uploaded table can be compared.          *)
(***************************************************************************)
EXTENDS Integers, Sequences, FiniteSets, TLC

\* ------------------------------------------------------------------ bounds
MaxRules == 2
MaxRows == 2

\* ------------------------------------------------------------ JSON scalars
\* A scalar is tagged with its Python type: 30 (int) and "30" (str) are
\* different cell values with the same textual form.
IntVal(n) == <<"int", n>>
StrVal(s) == <<"str", s>>

\* str(v), line 113
str(v) == IF v[1] = "int" THEN ToString(v[2]) ELSE v[2]

\* Digest value that the table below does not cover.
NoDigest == "??????????"

\* hashlib.sha256(val.encode()).hexdigest()[:10], line 114.  The table holds
\* the real digests of the sample texts and of their iterated digests.
sha256_hexdigest_10(text) ==
  CASE text = "Alice"      -> "3bc5106297"
    [] text = "3bc5106297" -> "3351d8b754"
    [] text = "3351d8b754" -> "ca85ce3832"
    [] text = "ca85ce3832" -> "d5809a8603"
    [] text = "d5809a8603" -> "593a6ae4c1"
    [] text = "593a6ae4c1" -> "96c9442836"
    [] text = "30"         -> "624b60c58c"
    [] text = "624b60c58c" -> "cf04294580"
    [] text = "cf04294580" -> "9f6c28ea3a"
    [] text = "9f6c28ea3a" -> "121e517108"
    [] text = "121e517108" -> "896c77c866"
    [] text = "896c77c866" -> "c4e3a2a5d4"
    [] OTHER               -> NoDigest

\* ------------------------------------------------------------------ inputs
Fields == {"name", "age"}
Actions == {"pseudonymize", "remove", "log_sensitive", "encrypt"}
LegalRefs == {"GDPR Art.4", "GDPR Art.9"}

\* Records of data/cv_rule_engine.json as json.load returns them (line 15):
\* nothing is validated, so a record may lack any of its three keys.
WellFormedRules ==
  { [condition |-> [field |-> f], action |-> a, legal_reference |-> l] :
      f \in Fields, a \in Actions, l \in LegalRefs }

MalformedRules ==
  { [action |-> "remove", legal_reference |-> "GDPR Art.9"],
    [condition |-> [column |-> "name"], action |-> "remove",
     legal_reference |-> "GDPR Art.9"],
    [condition |-> [field |-> "name"], legal_reference |-> "GDPR Art.9"],
    [condition |-> [field |-> "name"], action |-> "remove"] }

RuleRecords == WellFormedRules \cup MalformedRules

RECURSIVE SeqsUpTo(_, _)
SeqsUpTo(S, n) ==
  IF n = 0 THEN { <<>> }
  ELSE LET shorter == SeqsUpTo(S, n - 1)
       IN shorter \cup { Append(s, x) : s \in { t \in shorter : Len(t) = n - 1 }, x \in S }

RuleFiles == SeqsUpTo(RuleRecords, MaxRules)

\* Data lines of the uploaded CSV, as text.
SampleRows ==
  { [name |-> "Alice", age |-> "30"],
    [name |-> "30",    age |-> "30"] }

ColumnLayouts == { <<"name", "age">>, <<"name">> }

Range(s) == { s[i] : i \in 1..Len(s) }

\* The texts pd.read_csv parses as integers, and their values.
IsIntegerText(text) == text \in {"30"}
ParseInt(text) == CASE text = "30" -> 30

\* pd.read_csv(data_file), line 94: a header, a RangeIndex 0..n-1 and the
\* cells; a column whose cells are all integers is parsed as integers, any
\* other column keeps its texts.
read_csv(cols, rows) ==
  LET IntegerColumn(c) == \A k \in 1..Len(rows) : IsIntegerText(rows[k][c])
  IN [ columns |-> cols,
       index   |-> [ k \in 1..Len(rows) |-> k - 1 ],
       data    |-> [ i \in 0..(Len(rows) - 1) |->
                       [ c \in Range(cols) |->
                           IF IntegerColumn(c) THEN IntVal(ParseInt(rows[i + 1][c]))
                           ELSE StrVal(rows[i + 1][c]) ] ] ]

Uploads ==
  { read_csv(cols, rows) : cols \in ColumnLayouts, rows \in SeqsUpTo(SampleRows, MaxRows) }

\* ------------------------------------------------------------------- state
Runs == {1, 2}

VARIABLES
  rules,           \* json.load(f)["rules"], line 15
  df_raw,          \* the uploaded table, line 94
  df_transformed,  \* per run: the working copy, line 99
  audit_log,       \* per run: line 100
  changed_fields,  \* per run: line 101
  rule_pos,        \* per run: position of the `for rule in rules` iterator
  pc,              \* per run: "loop", "done" (outputs handed over), "error"
  digested         \* per run: the (val, pseudo) pairs computed at lines 113-114

vars == <<rules, df_raw, df_transformed, audit_log, changed_fields, rule_pos,
          pc, digested>>

\* Lines 14-15 and 94-101: the rules are loaded as they are, the upload is
\* parsed, and each pass starts on its own copy with an empty log.
Init ==
  /\ rules \in RuleFiles
  /\ df_raw \in Uploads
  /\ df_transformed = [r \in Runs |-> df_raw]
  /\ audit_log = [r \in Runs |-> <<>>]
  /\ changed_fields = [r \in Runs |-> {}]
  /\ rule_pos = [r \in Runs |-> 1]
  /\ pc = [r \in Runs |-> "loop"]
  /\ digested = [r \in Runs |-> {}]

\* ------------------------------------------------------ dataframe helpers
\* `field in df.columns`, line 108
HasColumn(df, field) == field \in Range(df.columns)

\* Variant: the header loses the column, the rows keep their cell.
drop_header_only(df, field) ==
  [ df EXCEPT !.columns = SelectSeq(@, LAMBDA c : c # field) ]

\* Variant: drop without inplace=True returns a copy and leaves df as it was.
drop_not_inplace(df, field) == df

\* df.drop(columns=[field], inplace=True), line 125
drop(df, field) ==
  [ columns |-> SelectSeq(df.columns, LAMBDA c : c # field),
    index   |-> df.index,
    data    |-> [ i \in DOMAIN df.data |->
                    [ c \in (DOMAIN df.data[i]) \ {field} |-> df.data[i][c] ] ] ]

\* Variant: df[field] = value assigns the whole column.
at_set_whole_column(df, idx, field, value) ==
  [ df EXCEPT !.data = [ i \in DOMAIN @ |-> [ @[i] EXCEPT ![field] = value ] ] ]

\* df.at[idx, field] = value, line 115
at_set(df, idx, field, value) ==
  [ df EXCEPT !.data[idx][field] = value ]

\* The audit records of lines 116-121, 126-131 and 136-141.
AuditEntry(field, action, row, legal_ref) ==
  [ field |-> field, action |-> action, row |-> row, legal_reference |-> legal_ref ]

\* ------------------------------------------------------------ rule lookup
\* rule["condition"]["field"], rule["action"], rule["legal_reference"]
\* (lines 104-106) raise KeyError when a key is missing.
RaisesKeyError(rule) ==
  IF "condition" \notin DOMAIN rule THEN TRUE
  ELSE IF "field" \notin DOMAIN rule.condition THEN TRUE
  ELSE IF "action" \notin DOMAIN rule THEN TRUE
  ELSE "legal_reference" \notin DOMAIN rule

\* ------------------------------------------------------------- row loops
\* Lines 112-121, from position k of df.index on.
RECURSIVE pseudonymize_rows(_, _, _, _, _, _)
pseudonymize_rows(df, log, seen, field, legal_ref, k) ==
  IF k > Len(df.index) THEN [ df |-> df, log |-> log, seen |-> seen ]
  ELSE LET idx    == df.index[k]
           val    == str(df.data[idx][field])
           pseudo == sha256_hexdigest_10(val)
       IN pseudonymize_rows(
            at_set(df, idx, field, StrVal(pseudo)),
            Append(log, AuditEntry(field, "pseudonymized", IntVal(idx), legal_ref)),
            seen \cup { <<val, pseudo>> },
            field, legal_ref, k + 1)

\* Variant: the loop starts one row late (df.index[1:]).
log_sensitive_rows_skip_first(df, log, field, legal_ref, k) ==
  log \o [ j \in 1..(Len(df.index) - k) |->
            AuditEntry(field, "logged sensitive field",
                       IntVal(df.index[j + k]), legal_ref) ]

\* Lines 135-141, from position k of df.index on.
RECURSIVE log_sensitive_rows(_, _, _, _, _)
log_sensitive_rows(df, log, field, legal_ref, k) ==
  IF k > Len(df.index) THEN log
  ELSE log_sensitive_rows(
         df,
         Append(log, AuditEntry(field, "logged sensitive field",
                                IntVal(df.index[k]), legal_ref)),
         field, legal_ref, k + 1)

\* ---------------------------------------------------------------- actions
AtRule(r) == pc[r] = "loop" /\ rule_pos[r] <= Len(rules)
CurrentRule(r) == rules[rule_pos[r]]

\* Lines 104-106: a missing key raises KeyError, which ends the script run.
KeyErrorRaised(r) ==
  /\ AtRule(r)
  /\ RaisesKeyError(CurrentRule(r))
  /\ pc' = [pc EXCEPT ![r] = "error"]
  /\ UNCHANGED <<rules, df_raw, df_transformed, audit_log, changed_fields,
                 rule_pos, digested>>

\* Variant: the skipped rule is recorded in the log.
SkipMissingField_logged(r) ==
  /\ AtRule(r)
  /\ ~RaisesKeyError(CurrentRule(r))
  /\ ~HasColumn(df_transformed[r], CurrentRule(r).condition.field)
  /\ audit_log' = [audit_log EXCEPT ![r] =
       Append(@, AuditEntry(CurrentRule(r).condition.field, "skipped",
                            StrVal("all"), CurrentRule(r).legal_reference))]
  /\ rule_pos' = [rule_pos EXCEPT ![r] = @ + 1]
  /\ UNCHANGED <<rules, df_raw, df_transformed, changed_fields, pc, digested>>

\* Lines 108-109: `continue` when the field is not a column.
SkipMissingField(r) ==
  /\ AtRule(r)
  /\ ~RaisesKeyError(CurrentRule(r))
  /\ ~HasColumn(df_transformed[r], CurrentRule(r).condition.field)
  /\ rule_pos' = [rule_pos EXCEPT ![r] = @ + 1]
  /\ UNCHANGED <<rules, df_raw, df_transformed, audit_log, changed_fields,
                 pc, digested>>

\* Variant: the digest is salted per pass (the second pass digests twice).
Pseudonymize_salted(r) ==
  /\ AtRule(r)
  /\ ~RaisesKeyError(CurrentRule(r))
  /\ HasColumn(df_transformed[r], CurrentRule(r).condition.field)
  /\ CurrentRule(r).action = "pseudonymize"
  /\ LET field == CurrentRule(r).condition.field
         out   == pseudonymize_rows(df_transformed[r], audit_log[r], {},
                                    field, CurrentRule(r).legal_reference, 1)
         salt(t) == IF r = 1 THEN t ELSE sha256_hexdigest_10(t)
     IN /\ df_transformed' = [df_transformed EXCEPT ![r] =
             [ out.df EXCEPT !.data = [ i \in DOMAIN @ |->
                 [ @[i] EXCEPT ![field] = StrVal(salt(@[2])) ] ] ] ]
        /\ audit_log' = [audit_log EXCEPT ![r] = out.log]
        /\ digested' = [digested EXCEPT ![r] =
             @ \cup { <<p[1], salt(p[2])>> : p \in out.seen }]
        /\ changed_fields' = [changed_fields EXCEPT ![r] = @ \cup {field}]
  /\ rule_pos' = [rule_pos EXCEPT ![r] = @ + 1]
  /\ UNCHANGED <<rules, df_raw, pc>>

\* Lines 111-122.
Pseudonymize(r) ==
  /\ AtRule(r)
  /\ ~RaisesKeyError(CurrentRule(r))
  /\ HasColumn(df_transformed[r], CurrentRule(r).condition.field)
  /\ CurrentRule(r).action = "pseudonymize"
  /\ LET field == CurrentRule(r).condition.field
         out   == pseudonymize_rows(df_transformed[r], audit_log[r], digested[r],
                                    field, CurrentRule(r).legal_reference, 1)
     IN /\ df_transformed' = [df_transformed EXCEPT ![r] = out.df]
        /\ audit_log' = [audit_log EXCEPT ![r] = out.log]
        /\ digested' = [digested EXCEPT ![r] = out.seen]
        /\ changed_fields' = [changed_fields EXCEPT ![r] = @ \cup {field}]
  /\ rule_pos' = [rule_pos EXCEPT ![r] = @ + 1]
  /\ UNCHANGED <<rules, df_raw, pc>>

\* Variant: the log is rebound to a fresh list instead of appended to.
Remove_log_rebound(r) ==
  /\ AtRule(r)
  /\ ~RaisesKeyError(CurrentRule(r))
  /\ HasColumn(df_transformed[r], CurrentRule(r).condition.field)
  /\ CurrentRule(r).action = "remove"
  /\ LET field == CurrentRule(r).condition.field
     IN /\ df_transformed' = [df_transformed EXCEPT ![r] = drop(@, field)]
        /\ audit_log' = [audit_log EXCEPT ![r] =
             << AuditEntry(field, "removed", StrVal("all"),
                           CurrentRule(r).legal_reference) >>]
        /\ changed_fields' = [changed_fields EXCEPT ![r] = @ \cup {field}]
  /\ rule_pos' = [rule_pos EXCEPT ![r] = @ + 1]
  /\ UNCHANGED <<rules, df_raw, pc, digested>>

\* Lines 124-132.
Remove(r) ==
  /\ AtRule(r)
  /\ ~RaisesKeyError(CurrentRule(r))
  /\ HasColumn(df_transformed[r], CurrentRule(r).condition.field)
  /\ CurrentRule(r).action = "remove"
  /\ LET field == CurrentRule(r).condition.field
     IN /\ df_transformed' = [df_transformed EXCEPT ![r] = drop(@, field)]
        /\ audit_log' = [audit_log EXCEPT ![r] =
             Append(@, AuditEntry(field, "removed", StrVal("all"),
                                  CurrentRule(r).legal_reference))]
        /\ changed_fields' = [changed_fields EXCEPT ![r] = @ \cup {field}]
  /\ rule_pos' = [rule_pos EXCEPT ![r] = @ + 1]
  /\ UNCHANGED <<rules, df_raw, pc, digested>>

\* Variant: the rows are visited from the last to the first.
LogSensitive_reversed(r) ==
  /\ AtRule(r)
  /\ ~RaisesKeyError(CurrentRule(r))
  /\ HasColumn(df_transformed[r], CurrentRule(r).condition.field)
  /\ CurrentRule(r).action = "log_sensitive"
  /\ LET block == log_sensitive_rows(df_transformed[r], <<>>,
                                     CurrentRule(r).condition.field,
                                     CurrentRule(r).legal_reference, 1)
     IN audit_log' = [audit_log EXCEPT ![r] =
          @ \o [ j \in 1..Len(block) |-> block[Len(block) + 1 - j] ]]
  /\ rule_pos' = [rule_pos EXCEPT ![r] = @ + 1]
  /\ UNCHANGED <<rules, df_raw, df_transformed, changed_fields, pc, digested>>

\* Lines 134-141.
LogSensitive(r) ==
  /\ AtRule(r)
  /\ ~RaisesKeyError(CurrentRule(r))
  /\ HasColumn(df_transformed[r], CurrentRule(r).condition.field)
  /\ CurrentRule(r).action = "log_sensitive"
  /\ audit_log' = [audit_log EXCEPT ![r] =
       log_sensitive_rows(df_transformed[r], @, CurrentRule(r).condition.field,
                          CurrentRule(r).legal_reference, 1)]
  /\ rule_pos' = [rule_pos EXCEPT ![r] = @ + 1]
  /\ UNCHANGED <<rules, df_raw, df_transformed, changed_fields, pc, digested>>

\* Variant: an else branch that rejects the action.
OtherAction_rejected(r) ==
  /\ AtRule(r)
  /\ ~RaisesKeyError(CurrentRule(r))
  /\ HasColumn(df_transformed[r], CurrentRule(r).condition.field)
  /\ CurrentRule(r).action \notin {"pseudonymize", "remove", "log_sensitive"}
  /\ pc' = [pc EXCEPT ![r] = "error"]
  /\ UNCHANGED <<rules, df_raw, df_transformed, audit_log, changed_fields,
                 rule_pos, digested>>

\* Lines 111-141: the if/elif chain has no else branch.
OtherAction(r) ==
  /\ AtRule(r)
  /\ ~RaisesKeyError(CurrentRule(r))
  /\ HasColumn(df_transformed[r], CurrentRule(r).condition.field)
  /\ CurrentRule(r).action \notin {"pseudonymize", "remove", "log_sensitive"}
  /\ rule_pos' = [rule_pos EXCEPT ![r] = @ + 1]
  /\ UNCHANGED <<rules, df_raw, df_transformed, audit_log, changed_fields,
                 pc, digested>>

\* Lines 143-159: the loop is exhausted, the table and the log are displayed
\* and offered for download.
HandOver(r) ==
  /\ pc[r] = "loop"
  /\ rule_pos[r] > Len(rules)
  /\ pc' = [pc EXCEPT ![r] = "done"]
  /\ UNCHANGED <<rules, df_raw, df_transformed, audit_log, changed_fields,
                 rule_pos, digested>>

Step(r) ==
  \/ KeyErrorRaised(r)
  \/ SkipMissingField(r)
  \/ Pseudonymize(r)
  \/ Remove(r)
  \/ LogSensitive(r)
  \/ OtherAction(r)
  \/ HandOver(r)

\* One pass.
Next == Step(1)

Spec == Init /\ [][Next]_vars

\* Two passes over independent copies of the same upload, same rules.
NextPair == \E r \in Runs : Step(r)

SpecPair == Init /\ [][NextPair]_vars

\* ------------------------------------------------------------- properties
\* Run r takes a step of its pass.
Moved(r) == rule_pos'[r] # rule_pos[r] \/ pc'[r] # pc[r]

\* Run r is at a well-formed rule.
AtWellFormedRule(r) == AtRule(r) /\ ~RaisesKeyError(CurrentRule(r))

\* Run r is at a well-formed rule with action a whose field is a column.
AtPresent(r, a) ==
  /\ AtWellFormedRule(r)
  /\ HasColumn(df_transformed[r], CurrentRule(r).condition.field)
  /\ CurrentRule(r).action = a

\* The entries a step of run r appends (the log is assumed to grow).
Appended(r) ==
  SubSeq(audit_log'[r], Len(audit_log[r]) + 1, Len(audit_log'[r]))

IsPrefix(s, t) == Len(s) <= Len(t) /\ SubSeq(t, 1, Len(s)) = s

HasRemovedEntry(r, f) ==
  \E k \in 1..Len(audit_log[r]) :
    audit_log[r][k].action = "removed" /\ audit_log[r][k].field = f

\* C1 - Missing-field no-op: processing a rule whose field is not a column
\* appends no audit entry, leaves the columns and every cell unchanged, and
\* the pass goes on to the next rule without error.
C1_MissingFieldNoOp ==
  [][ \A r \in Runs :
        ( /\ AtWellFormedRule(r)
          /\ ~HasColumn(df_transformed[r], CurrentRule(r).condition.field)
          /\ Moved(r) )
        => /\ audit_log'[r] = audit_log[r]
           /\ df_transformed'[r] = df_transformed[r]
           /\ pc'[r] = "loop"
           /\ rule_pos'[r] = rule_pos[r] + 1 ]_vars

\* A rule on a field the upload never had has been passed over.
C1_Witness ==
  \E r \in Runs :
    /\ pc[r] = "loop"
    /\ rule_pos[r] > 1
    /\ ~RaisesKeyError(rules[rule_pos[r] - 1])
    /\ ~HasColumn(df_raw, rules[rule_pos[r] - 1].condition.field)
    /\ Len(df_raw.index) > 0

\* C2 - Removal atomicity: a `remove` rule on a present field F leaves F
\* absent from the header and from every row, and appends exactly one entry
\* ("removed", row "all", the rule's legal reference), whatever the row count.
C2_RemovalAtomicity ==
  [][ \A r \in Runs :
        (AtPresent(r, "remove") /\ Moved(r))
        => LET F == CurrentRule(r).condition.field
           IN /\ ~HasColumn(df_transformed'[r], F)
              /\ \A i \in DOMAIN df_transformed'[r].data :
                   F \notin DOMAIN df_transformed'[r].data[i]
              /\ DOMAIN df_transformed'[r].data = DOMAIN df_transformed[r].data
              /\ audit_log'[r] =
                   Append(audit_log[r],
                          AuditEntry(F, "removed", StrVal("all"),
                                     CurrentRule(r).legal_reference)) ]_vars

\* A column has been removed from a table that has rows.
C2_Witness ==
  \E r \in Runs :
    /\ Len(audit_log[r]) = 1
    /\ audit_log[r][1].action = "removed"
    /\ Len(df_transformed[r].index) > 0
    /\ Len(df_transformed[r].columns) < Len(df_raw.columns)

\* C3 - Audit completeness: a `pseudonymize` or `log_sensitive` rule on a
\* present field appends as many entries as the table has rows, one per row
\* identity, and the row count is the one of the upload whatever columns were
\* removed before.
C3_AuditCompleteness ==
  [][ \A r \in Runs :
        ((AtPresent(r, "pseudonymize") \/ AtPresent(r, "log_sensitive")) /\ Moved(r))
        => /\ Len(audit_log'[r]) = Len(audit_log[r]) + Len(df_raw.index)
           /\ Len(df_transformed[r].index) = Len(df_raw.index)
           /\ \A k \in 1..Len(df_raw.index) :
                Cardinality({ j \in 1..Len(Appended(r)) :
                                Appended(r)[j].row = IntVal(df_raw.index[k]) }) = 1 ]_vars

\* A row-level rule has run after a removal, on a table that has rows.
C3_Witness ==
  \E r \in Runs :
    /\ Len(df_raw.index) > 1
    /\ Len(audit_log[r]) = 1 + Len(df_raw.index)
    /\ audit_log[r][1].action = "removed"
    /\ audit_log[r][2].action \in {"pseudonymized", "logged sensitive field"}

\* C4 - A malformed rule is a fatal error surfaced before any processing: in
\* a pass that ends in this error no cell was mutated, no column dropped and
\* no audit entry appended.
C4_MalformedRuleFailsBeforeProcessing ==
  \A r \in Runs :
    pc[r] = "error" => (audit_log[r] = <<>> /\ df_transformed[r] = df_raw)

\* C5 - A removed column is not re-addressable: once a `remove` on F has run,
\* F stays out of the header, and every later rule on F appends nothing,
\* changes nothing in the table and raises no error.
C5_RemovedColumnNotReAddressable ==
  [][ \A r \in Runs : \A F \in Fields :
        HasRemovedEntry(r, F)
        => /\ ~HasColumn(df_transformed[r], F)
           /\ ~HasColumn(df_transformed'[r], F)
           /\ ( (AtWellFormedRule(r) /\ CurrentRule(r).condition.field = F /\ Moved(r))
                => /\ audit_log'[r] = audit_log[r]
                   /\ df_transformed'[r] = df_transformed[r]
                   /\ pc'[r] = "loop"
                   /\ rule_pos'[r] = rule_pos[r] + 1 ) ]_vars

\* A rule on F has been passed after F was removed.
C5_Witness ==
  \E r \in Runs :
    /\ rule_pos[r] > 2
    /\ ~RaisesKeyError(rules[rule_pos[r] - 1])
    /\ HasRemovedEntry(r, rules[rule_pos[r] - 1].condition.field)
    /\ Len(audit_log[r]) = 1

\* C6 - Unknown action is a no-op: on a present field it mutates no cell,
\* drops no column, appends no entry and raises no error, and the pass goes
\* on to the next rule.
C6_UnknownActionNoOp ==
  [][ \A r \in Runs :
        ( /\ AtWellFormedRule(r)
          /\ HasColumn(df_transformed[r], CurrentRule(r).condition.field)
          /\ CurrentRule(r).action \notin {"pseudonymize", "remove", "log_sensitive"}
          /\ Moved(r) )
        => /\ audit_log'[r] = audit_log[r]
           /\ df_transformed'[r] = df_transformed[r]
           /\ pc'[r] = "loop"
           /\ rule_pos'[r] = rule_pos[r] + 1 ]_vars

\* A rule with an unknown action on a present field has been passed.
C6_Witness ==
  \E r \in Runs :
    /\ pc[r] = "loop"
    /\ rule_pos[r] = 2
    /\ ~RaisesKeyError(rules[1])
    /\ HasColumn(df_raw, rules[1].condition.field)
    /\ rules[1].action = "encrypt"
    /\ Len(df_raw.index) > 0

\* C7 - The audit log is append-only: it starts empty, every step keeps the
\* former log as a prefix of the new one, and the log does not change once
\* the last rule has been processed.
C7_AuditLogAppendOnly ==
  /\ \A r \in Runs : audit_log[r] = <<>>
  /\ [][ \A r \in Runs :
           /\ IsPrefix(audit_log[r], audit_log'[r])
           /\ (pc[r] # "loop" \/ rule_pos[r] > Len(rules))
                => audit_log'[r] = audit_log[r] ]_vars

\* A pass is over with a log that two rules have written to.
C7_Witness ==
  \E r \in Runs :
    /\ pc[r] = "done"
    /\ Len(audit_log[r]) > 1
    /\ audit_log[r][1].action = "removed"

C9_AuditOrder ==
  [][ \A r \in Runs :
        /\ rule_pos'[r] \in { rule_pos[r], rule_pos[r] + 1 }
        /\ (AtWellFormedRule(r) /\ Moved(r))
             => /\ IsPrefix(audit_log[r], audit_log'[r])
                /\ \A k \in 1..Len(Appended(r)) :
                     /\ Appended(r)[k].field = CurrentRule(r).condition.field
                     /\ Appended(r)[k].legal_reference = CurrentRule(r).legal_reference
                     /\ CurrentRule(r).action \in {"pseudonymize", "log_sensitive"}
                          => Appended(r)[k].row = IntVal(k - 1) ]_vars

\* A pass is over whose log holds the blocks of two rules, of two rows each.
C9_Witness ==
  \E r \in Runs :
    /\ pc[r] = "done"
    /\ Len(df_raw.index) = 2
    /\ Len(audit_log[r]) = 4
    /\ audit_log[r][2].legal_reference # audit_log[r][3].legal_reference

\* C10 - Frame of the cell-level actions: `pseudonymize` on a present field F
\* replaces each cell of F by the digest of the text it held just before the
\* rule and changes nothing else; `log_sensitive` changes nothing in the table.
C10_CellActionFrame ==
  [][ \A r \in Runs :
        /\ (AtPresent(r, "pseudonymize") /\ Moved(r))
             => LET F   == CurrentRule(r).condition.field
                    old == df_transformed[r]
                    new == df_transformed'[r]
                IN /\ new.columns = old.columns
                   /\ new.index = old.index
                   /\ DOMAIN new.data = DOMAIN old.data
                   /\ \A i \in DOMAIN old.data :
                        /\ DOMAIN new.data[i] = DOMAIN old.data[i]
                        /\ new.data[i][F] =
                             StrVal(sha256_hexdigest_10(str(old.data[i][F])))
                        /\ new.data[i][F] # StrVal(NoDigest)
                        /\ \A c \in DOMAIN old.data[i] \ {F} :
                             new.data[i][c] = old.data[i][c]
        /\ (AtPresent(r, "log_sensitive") /\ Moved(r))
             => df_transformed'[r] = df_transformed[r] ]_vars

\* A column of two different texts has been pseudonymized twice: the cell
\* that held "Alice" holds the digest of its digest.
C10_Witness ==
  \E r \in Runs :
    /\ Len(df_raw.index) = 2
    /\ df_raw.data[0]["name"] # df_raw.data[1]["name"]
    /\ df_raw.data[1]["name"] = StrVal("Alice")
    /\ HasColumn(df_transformed[r], "name")
    /\ df_transformed[r].data[1]["name"] = StrVal("3351d8b754")

====
